---- MODULE Spec2Model ----
(***************************************************************************)
(* Bot_Ring: the access-control store and the command handlers of bot.py,  *)
(* and the video-note conversion pipeline of bot.py and Main.py.           *)
(*                                                                         *)
(* Scheduling.  Both programs run their handlers as coroutines of one      *)
(* asyncio event loop.  A handler runs without interruption from one       *)
(* suspending await to the next, so every action below is the code between *)
(* two suspension points.  The suspension points are the network calls     *)
(* (m.answer, send_chat_action, get_file/download_file, answer_video_note) *)
(* and the wait for the transcoder.  `await func(...)` of a coroutine and  *)
(* `async with SAVE_LOCK` do not suspend: asyncio.Lock.acquire returns at   *)
(* once when the lock is free, and the lock is only ever held across the   *)
(* synchronous write_text of _save_access, so it is free whenever a        *)
(* handler reaches it.  Hence _load_access ... _save_access of one command *)
(* is a single step of the event loop.                                     *)
(***************************************************************************)
EXTENDS Integers, Sequences, FiniteSets, TLC

\* Largest number of leading '@' typed in front of a handle argument.
MaxAt == 1

(***************************************************************************)
(* Strings are sequences of one-character strings.                         *)
(***************************************************************************)
CharCode(ch) ==
    CASE ch = " " -> 32 [] ch = "," -> 44
      [] ch = "0" -> 48 [] ch = "1" -> 49 [] ch = "2" -> 50 [] ch = "3" -> 51
      [] ch = "4" -> 52 [] ch = "5" -> 53 [] ch = "6" -> 54 [] ch = "7" -> 55
      [] ch = "8" -> 56 [] ch = "9" -> 57
      [] ch = "@" -> 64 [] ch = "A" -> 65 [] ch = "a" -> 97 [] ch = "x" -> 120
      [] ch = "B" -> 66 [] ch = "b" -> 98
      [] ch = "d" -> 100 [] ch = "e" -> 101 [] ch = "i" -> 105 [] ch = "m" -> 109
      [] ch = "n" -> 110 [] ch = "p" -> 112 [] ch = "r" -> 114 [] ch = "s" -> 115
      [] ch = "u" -> 117

IsDigit(ch) == CharCode(ch) >= 48 /\ CharCode(ch) <= 57

\* str.lower() on one character
LowerChar(ch) == IF ch = "A" THEN "a" ELSE IF ch = "B" THEN "b" ELSE ch

RECURSIVE Lower(_)
Lower(s) == IF s = <<>> THEN <<>> ELSE <<LowerChar(Head(s))>> \o Lower(Tail(s))

\* str.lstrip(ch): drops every leading ch
RECURSIVE LStrip(_, _)
LStrip(s, ch) ==
    IF s # <<>> /\ Head(s) = ch THEN LStrip(Tail(s), ch) ELSE s

RECURSIVE RStrip(_, _)
RStrip(s, ch) ==
    IF s # <<>> /\ s[Len(s)] = ch THEN RStrip(SubSeq(s, 1, Len(s) - 1), ch) ELSE s

\* str.strip(): whitespace off both ends
Strip(s) == RStrip(LStrip(s, " "), " ")

\* str < str, by code point
RECURSIVE StrLess(_, _)
StrLess(a, b) ==
    IF b = <<>> THEN FALSE
    ELSE IF a = <<>> THEN TRUE
    ELSE IF Head(a) # Head(b) THEN CharCode(Head(a)) < CharCode(Head(b))
    ELSE StrLess(Tail(a), Tail(b))

\* str.split(sep)
RECURSIVE SplitAcc(_, _, _)
SplitAcc(s, sep, cur) ==
    IF s = <<>> THEN <<cur>>
    ELSE IF Head(s) = sep THEN <<cur>> \o SplitAcc(Tail(s), sep, <<>>)
    ELSE SplitAcc(Tail(s), sep, Append(cur, Head(s)))

Split(s, sep) == SplitAcc(s, sep, <<>>)

RECURSIVE DigitsValue(_, _)
DigitsValue(s, acc) ==
    IF s = <<>> THEN acc
    ELSE DigitsValue(Tail(s), 10 * acc + (CharCode(Head(s)) - 48))

\* int(str) succeeds on an optionally space-padded run of digits
\* (signs and underscores are not in the alphabet)
IntOk(s) == Strip(s) # <<>> /\ \A i \in 1..Len(Strip(s)) : IsDigit(Strip(s)[i])
IntOf(s) == DigitsValue(Strip(s), 0)

DigitChars == <<"0", "1", "2", "3", "4", "5", "6", "7", "8", "9">>

\* str(int) for a non-negative int
RECURSIVE Digits(_)
Digits(n) == IF n < 10 THEN <<DigitChars[n + 1]>>
             ELSE Digits(n \div 10) \o <<DigitChars[(n % 10) + 1]>>

(***************************************************************************)
(* Python / JSON values: an int, a str or None, tagged so that values of   *)
(* different types can sit in one list.                                    *)
(***************************************************************************)
I(n) == [t |-> "int", n |-> n, s |-> <<>>]
S(s) == [t |-> "str", n |-> 0, s |-> s]
None == [t |-> "none", n |-> 0, s |-> <<>>]

\* truth value of a Python value (`if u`, `not uname`)
Truthy(v) == CASE v.t = "int" -> v.n # 0
               [] v.t = "str" -> v.s # <<>>
               [] OTHER -> FALSE

\* int(v) raises ValueError/TypeError exactly when ~PyIntOk(v)
PyIntOk(v) == CASE v.t = "int" -> TRUE
                [] v.t = "str" -> IntOk(v.s)
                [] OTHER -> FALSE
PyInt(v) == IF v.t = "int" THEN v.n ELSE IntOf(v.s)

\* str(v)
PyStr(v) == CASE v.t = "int" -> Digits(v.n)
              [] v.t = "str" -> v.s
              [] OTHER -> <<"N", "o", "n", "e">>

Range(q) == {q[i] : i \in 1..Len(q)}

\* sorted(set of ints), sorted(set of strs)
RECURSIVE SortInts(_)
SortInts(X) ==
    IF X = {} THEN <<>>
    ELSE LET m == CHOOSE a \in X : \A b \in X : a <= b
         IN <<I(m)>> \o SortInts(X \ {m})

RECURSIVE SortStrs(_)
SortStrs(X) ==
    IF X = {} THEN <<>>
    ELSE LET m == CHOOSE a \in X : \A b \in X : a = b \/ StrLess(a, b)
         IN <<S(m)>> \o SortStrs(X \ {m})

(***************************************************************************)
(* The access document and its store (bot.py, "ПУТИ/ХРАНИЛИЩЕ").           *)
(***************************************************************************)
Block(ids, usernames) == [ids |-> ids, usernames |-> usernames]
Doc(sup, adm) == [super |-> sup, admins |-> adm]

empty_access == Doc(Block(<<>>, <<>>), Block(<<>>, <<>>))

\* _parse_ids: env is the value of the environment variable, None when unset
parse_ids(env) ==
    IF ~Truthy(env) THEN {}
    ELSE LET parts == Split(env.s, ",")
         IN {IntOf(parts[i]) : i \in {j \in 1..Len(parts) :
                                        Strip(parts[j]) # <<>> /\ IntOk(parts[j])}}

norm_block(b) ==
    LET ids    == {PyInt(v) : v \in {w \in Range(b.ids) : PyIntOk(w)}}
        unames == {Lower(LStrip(PyStr(u), "@")) :
                     u \in {w \in Range(b.usernames) : Truthy(w)}}
    IN Block(SortInts(ids), SortStrs(unames))

normalize_access(d) == Doc(norm_block(d.super), norm_block(d.admins))

\* The access file: absent, or holding a JSON document.
Absent == [exists |-> FALSE, doc |-> empty_access]
Stored(d) == [exists |-> TRUE, doc |-> d]

\* mutant: membership is always read from the environment lists
load_access_env_only(f, e) ==
    Doc(Block(SortInts(parse_ids(e.super)), <<>>),
        Block(SortInts(parse_ids(e.admins)), <<>>))

load_access(f, e) ==
    IF ~f.exists
    THEN Doc(Block(SortInts(parse_ids(e.super)), <<>>),
             Block(SortInts(parse_ids(e.admins)), <<>>))
    ELSE normalize_access(f.doc)

\* mutant: the document is written as it is passed
save_access_as_passed(data) == Stored(data)

\* what _save_access leaves in the file
save_access(data) == Stored(normalize_access(data))

(***************************************************************************)
(* Arbitrary JSON values, as json.loads returns them from a file edited by *)
(* hand: the scalars above, lists, and dicts.  A dict is a function from   *)
(* its keys to values.  (Booleans and floats are left out, and the         *)
(* elements of a list are scalars.)                                        *)
(***************************************************************************)
JList(q) == [t |-> "list", items |-> q]
JDict(f) == [t |-> "dict", items |-> f]

k_super == <<"s", "u", "p", "e", "r">>
k_admins == <<"a", "d", "m", "i", "n", "s">>
k_ids == <<"i", "d", "s">>
k_usernames == <<"u", "s", "e", "r", "n", "a", "m", "e", "s">>

Dict0 == JDict([k \in {} |-> None])
Dict1(k, v) == JDict([x \in {k} |-> v])
Dict2(k, v, l, w) == JDict([x \in {k, l} |-> IF x = k THEN v ELSE w])

\* d.get(key, default), d.setdefault(key, default) of a dict d
get(d, key, default) == IF key \in DOMAIN d.items THEN d.items[key] ELSE default

\* `for x in v` raises TypeError unless v is a list, a str or a dict
Iterable(v) == v.t \in {"list", "str", "dict"}

\* what `for x in v` yields: the elements of a list, the characters of a str,
\* the keys of a dict (in an order that norm_block, which collects them into
\* sets, does not depend on)
Iter(v) ==
    CASE v.t = "list" -> v.items
      [] v.t = "str"  -> [i \in 1..Len(v.s) |-> S(<<v.s[i]>>)]
      [] v.t = "dict" -> SortStrs(DOMAIN v.items)

\* norm_block(b) raises: AttributeError from b.get when b is not a dict,
\* TypeError from iterating a value that is not iterable
norm_block_raises(b) ==
    \/ b.t # "dict"
    \/ ~Iterable(get(b, k_ids, JList(<<>>)))
    \/ ~Iterable(get(b, k_usernames, JList(<<>>)))

\* the values norm_block iterates over in dict b
block_of(b) ==
    Block(Iter(get(b, k_ids, JList(<<>>))), Iter(get(b, k_usernames, JList(<<>>))))

\* the outcome of a call: it raised, or it returned a document
Raised == [raised |-> TRUE, doc |-> empty_access]
Returned(doc) == [raised |-> FALSE, doc |-> doc]

\* the two blocks _normalize_access reads from d; none when d is not a dict
as_doc(d) ==
    IF d.t # "dict" THEN empty_access
    ELSE Doc(block_of(get(d, k_super, Dict0)), block_of(get(d, k_admins, Dict0)))

\* _normalize_access on an arbitrary value
normalize_access_of(d) ==
    IF d.t # "dict" THEN Returned(empty_access)
    ELSE IF \/ norm_block_raises(get(d, k_super, Dict0))
            \/ norm_block_raises(get(d, k_admins, Dict0))
    THEN Raised
    ELSE Returned(normalize_access(as_doc(d)))

\* a document as the dict it is
block_json(b) == Dict2(k_ids, JList(b.ids), k_usernames, JList(b.usernames))
doc_json(d) == Dict2(k_super, block_json(d.super), k_admins, block_json(d.admins))

\* the text of the access file: text that json.loads rejects, or text that
\* denotes the JSON value v
Unparseable == [parses |-> FALSE, v |-> None]
Text(v) == [parses |-> TRUE, v |-> v]

\* _load_access when the file exists with this text
read_access(content) ==
    normalize_access_of(IF content.parses THEN content.v ELSE doc_json(empty_access))

(***************************************************************************)
(* Roles (bot.py, "РОЛИ/ПРАВА").  A message m carries the sender:          *)
(* m.id is from_user.id, m.username is from_user.username or None.         *)
(***************************************************************************)
user_username_norm(m) ==
    IF ~Truthy(m.username) THEN None
    ELSE S(Lower(LStrip(m.username.s, "@")))

in_block(m, block) ==
    LET uname == user_username_norm(m)
    IN \/ I(m.id) \in Range(block.ids)
       \/ Truthy(uname) /\ uname \in Range(block.usernames)

\* mutant: the admin tier passes the super check
is_super_or_admin_tier(m, access) ==
    in_block(m, access.super) \/ in_block(m, access.admins)

is_super(m, access) == in_block(m, access.super)

\* mutant: only the admin tier is looked at
is_admin_tier_only(m, access) == in_block(m, access.admins)

is_admin(m, access) == is_super(m, access) \/ in_block(m, access.admins)

\* a reply sent with m.answer: its kind and the identity it names
Reply(kind, who) == [kind |-> kind, who |-> who]
NoReply == Reply("none", None)

\* what a handler has decided when it reaches its reply: whether it wrote the
\* store, the document it holds, and the reply
Result(write, access, reply) == [write |-> write, access |-> access, reply |-> reply]

\* f"@{m.from_user.username}" if m.from_user.username else f"id:{m.from_user.id}"
DeniedWho(m) ==
    IF Truthy(m.username) THEN S(<<"@">> \o m.username.s)
    ELSE S(<<"i", "d", ":">> \o Digits(m.id))

\* _ensure_admin_access_or_explain: (ok, access) and the denial it answers
ensure_admin_access_or_explain(m, f, e) ==
    LET access == load_access(f, e)
    IN IF is_admin(m, access)
       THEN [ok |-> TRUE, access |-> access, reply |-> NoReply]
       ELSE [ok |-> FALSE, access |-> access,
             reply |-> Reply("denied_admin", DeniedWho(m))]

(***************************************************************************)
(* Super-admin commands (bot.py, "КОМАНДЫ СУПЕР-АДМИНА").  text is the     *)
(* message text after the command word.                                    *)
(***************************************************************************)
\* m.text.split(maxsplit=1): the command word, then the rest without its
\* leading whitespace when there is any rest
text_parts(text) ==
    IF LStrip(text, " ") = <<>> THEN << <<"/">> >>
    ELSE << <<"/">>, LStrip(text, " ") >>

parse_target(arg0) ==
    LET arg == Strip(arg0)
    IN IF arg = <<>> THEN [uid |-> None, uname |-> None]
       ELSE IF Head(arg) = "@"
            THEN [uid |-> None, uname |-> S(Lower(LStrip(arg, "@")))]
       ELSE IF IntOk(arg) THEN [uid |-> I(IntOf(arg)), uname |-> None]
       ELSE [uid |-> None, uname |-> S(Lower(arg))]

\* who = f"@{uname}" if uname else uid
Who(t) == IF Truthy(t.uname) THEN S(<<"@">> \o t.uname.s) ELSE t.uid

IntsOf(q) == {q[i].n : i \in 1..Len(q)}
StrsOf(q) == {q[i].s : i \in 1..Len(q)}

\* mutant: the tier is rebuilt from the target alone
block_of_target(b, t) ==
    Block(IF t.uid # None THEN <<t.uid>> ELSE <<>>,
          IF Truthy(t.uname) THEN <<t.uname>> ELSE <<>>)

\* sorted(set(b["ids"]) | {uid}) if uid is not None; the same for usernames
block_add(b, t) ==
    LET ids == IF t.uid # None THEN SortInts(IntsOf(b.ids) \cup {t.uid.n}) ELSE b.ids
        uns == IF Truthy(t.uname) THEN SortStrs(StrsOf(b.usernames) \cup {t.uname.s})
               ELSE b.usernames
    IN Block(ids, uns)

\* sorted({i for i in b["ids"] if i != uid}) if uid is not None; the same for usernames
block_remove(b, t) ==
    LET ids == IF t.uid # None THEN SortInts(IntsOf(b.ids) \ {t.uid.n}) ELSE b.ids
        uns == IF Truthy(t.uname) THEN SortStrs(StrsOf(b.usernames) \ {t.uname.s})
               ELSE b.usernames
    IN Block(ids, uns)

cmd_grant_admin(m, access, text) ==
    LET parts == text_parts(text)
    IN IF Len(parts) < 2 THEN Result(FALSE, access, Reply("usage", None))
       ELSE LET t == parse_target(parts[2])
            IN IF t.uid = None /\ ~Truthy(t.uname)
               THEN Result(FALSE, access, Reply("need_target", None))
               ELSE Result(TRUE, [access EXCEPT !.admins = block_add(@, t)],
                           Reply("granted_admin", Who(t)))

cmd_revoke_admin(m, access, text) ==
    LET parts == text_parts(text)
    IN IF Len(parts) < 2 THEN Result(FALSE, access, Reply("usage", None))
       ELSE LET t == parse_target(parts[2])
            IN Result(TRUE, [access EXCEPT !.admins = block_remove(@, t)],
                      Reply("revoked_admin", Who(t)))

cmd_grant_super(m, access, text) ==
    LET parts == text_parts(text)
    IN IF Len(parts) < 2 THEN Result(FALSE, access, Reply("usage", None))
       ELSE LET t == parse_target(parts[2])
            IN Result(TRUE, [access EXCEPT !.super = block_add(@, t)],
                      Reply("granted_super", Who(t)))

\* mutant: the guard counts the members of both tiers
count_all_tiers(a) ==
    Len(a.super.ids) + Len(a.super.usernames)
      + Len(a.admins.ids) + Len(a.admins.usernames)

count_sup(a) == Len(a.super.ids) + Len(a.super.usernames)

cmd_revoke_super(m, access, text) ==
    LET parts == text_parts(text)
    IN IF Len(parts) < 2 THEN Result(FALSE, access, Reply("usage", None))
       ELSE LET t == parse_target(parts[2])
                after == [access EXCEPT !.super = block_remove(@, t)]
            IN IF count_sup(after) = 0
               THEN Result(FALSE, after, Reply("last_super", None))
               ELSE Result(TRUE, after, Reply("revoked_super", Who(t)))

\* the listing itself is not modelled: it changes nothing and no property reads it
cmd_list_roles(m, access) == Result(FALSE, access, Reply("roles", None))

Commands == {"grant_admin", "revoke_admin", "grant_super", "revoke_super", "list_roles"}

\* _require_super wrapped around handler h
require_super(h, m, f, e, text) ==
    LET access == load_access(f, e)
    IN IF ~is_super(m, access)
       THEN Result(FALSE, access, Reply("denied_super", None))
       ELSE CASE h = "grant_admin"  -> cmd_grant_admin(m, access, text)
              [] h = "revoke_admin" -> cmd_revoke_admin(m, access, text)
              [] h = "grant_super"  -> cmd_grant_super(m, access, text)
              [] h = "revoke_super" -> cmd_revoke_super(m, access, text)
              [] h = "list_roles"   -> cmd_list_roles(m, access)

(***************************************************************************)
(* The conversion pipeline (bot.py "FFmpeg"/"МЕДИА", Main.py).             *)
(***************************************************************************)
\* mutant: success judged by the presence of the output file
ffmpeg_convert_by_output(rc, out) == out

\* ffmpeg_convert returns normally iff the transcoder's exit status is 0;
\* out says whether the transcoder left an output file, which ffmpeg_convert never reads
ffmpeg_convert(rc, out) == rc = 0

\* convert_to_video_note of Main.py: raises iff process.returncode != 0
convert_to_video_note(rc, out) == rc = 0

\* mutant: a failed transfer is swallowed
download_media_swallowed(got_file, downloaded) == TRUE

\* download_media returns normally iff get_file and download_file both do
download_media(got_file, downloaded) == got_file /\ downloaded

\* where a request goes next, and whether it is then still inside the
\* `with tempfile.TemporaryDirectory()` block
Go(label, inwith) == [pc |-> label, inwith |-> inwith]

\* mutant: the video note is sent after the `with` block has been left
bot_handle_video_send_outside(at, ok) ==
    CASE at = "chat_action"   -> IF ok THEN Go("downloading", TRUE) ELSE Go("raised", FALSE)
      [] at = "downloading"   -> IF ok THEN Go("download_file", TRUE) ELSE Go("reporting", TRUE)
      [] at = "download_file" -> IF ok THEN Go("spawning", TRUE) ELSE Go("reporting", TRUE)
      [] at = "spawning"      -> IF ok THEN Go("converting", TRUE) ELSE Go("reporting", TRUE)
      [] at = "converting"    -> IF ok THEN Go("delivering", FALSE) ELSE Go("reporting", TRUE)
      [] at = "delivering"    -> IF ok THEN Go("done", FALSE) ELSE Go("reporting", FALSE)
      [] at = "reporting"     -> IF ok THEN Go("failed", FALSE) ELSE Go("raised", FALSE)

\* handle_video of bot.py after the access check: `at` is the await the request
\* is suspended in, ok whether the code from that await to the next one runs
\* without raising.  The awaits are send_chat_action ("chat_action"), get_file
\* ("downloading") and download_file ("download_file") of download_media,
\* create_subprocess_exec ("spawning") and proc.communicate ("converting") of
\* ffmpeg_convert, answer_video_note ("delivering") and the m.answer of the
\* except clause ("reporting").  create_subprocess_exec is called in the step
\* in which download_file returns: it starts the process, or raises when there
\* is no transcoder program, before the handler is suspended again.
bot_handle_video(at, ok) ==
    CASE at = "chat_action"   -> IF ok THEN Go("downloading", TRUE) ELSE Go("raised", FALSE)
      [] at = "downloading"   -> IF ok THEN Go("download_file", TRUE) ELSE Go("reporting", TRUE)
      [] at = "download_file" -> IF ok THEN Go("spawning", TRUE) ELSE Go("reporting", TRUE)
      [] at = "spawning"      -> IF ok THEN Go("converting", TRUE) ELSE Go("reporting", TRUE)
      [] at = "converting"    -> IF ok THEN Go("delivering", TRUE) ELSE Go("reporting", TRUE)
      [] at = "delivering"    -> IF ok THEN Go("done", FALSE) ELSE Go("reporting", TRUE)
      [] at = "reporting"     -> IF ok THEN Go("failed", FALSE) ELSE Go("raised", FALSE)

\* handle_video of Main.py: only the conversion is inside try/except, and its
\* one await ("converting") is run_in_executor, whose thread starts the
\* transcoder while the event loop goes on.  After a conversion that returns,
\* types.InputFile(converted_path) opens the output file before
\* answer_video_note is awaited, outside the try: when the transcoder has left
\* no output file (out is FALSE) the exception leaves handle_video
Main_handle_video(at, ok, out) ==
    CASE at = "chat_action"   -> IF ok THEN Go("downloading", TRUE) ELSE Go("raised", FALSE)
      [] at = "downloading"   -> IF ok THEN Go("download_file", TRUE) ELSE Go("raised", FALSE)
      [] at = "download_file" -> IF ok THEN Go("converting", TRUE) ELSE Go("raised", FALSE)
      [] at = "converting"    -> IF ~ok THEN Go("reporting", TRUE)
                                 ELSE IF out THEN Go("delivering", TRUE)
                                 ELSE Go("raised", FALSE)
      [] at = "delivering"    -> IF ok THEN Go("done", FALSE) ELSE Go("raised", FALSE)
      [] at = "reporting"     -> IF ok THEN Go("failed", FALSE) ELSE Go("raised", FALSE)

\* mutant: the directory is made with mkdtemp and never removed
TemporaryDirectory_leak(dirs, c) == dirs

\* leaving the `with` block removes the directory
TemporaryDirectory_exit(dirs, c) == dirs \ {c}

\* entering the `with` block creates the directory
TemporaryDirectory_enter(dirs, c) == dirs \cup {c}

(***************************************************************************)
(* The state machine.  Each caller has at most one handler in flight.      *)
(***************************************************************************)
VARIABLES
    file,      \* data/access.json
    env,       \* BOT_SUPER_ADMINS and BOT_ADMINS
    pc,        \* per caller: where the caller's handler is suspended
    req,       \* per caller: the handler, its entry point and the message text
    reply,     \* per caller: the answer the handler sends
    run,       \* per caller: what has happened in the conversion request so far
    tmpdirs,   \* the callers whose request's working directory exists
    before,    \* per caller: the callers whose handler, still running, was
               \* already in flight when this caller's handler started
    input,     \* the value a store function is applied to on its own
    outcome    \* what that application gave

vars == <<file, env, pc, req, reply, run, tmpdirs, before, input, outcome>>

Callers == {"u1", "u2"}

\* u1 has no username; u2's username has an upper-case letter
From(c) == IF c = "u1" THEN [id |-> 1, username |-> None]
           ELSE [id |-> 2, username |-> S(<<"A">>)]

RECURSIVE Ats(_)
Ats(k) == IF k = 0 THEN <<>> ELSE <<"@">> \o Ats(k - 1)

\* command arguments: the numeric ID of u1 followed by whitespace, the handle of
\* u2 behind one or more '@', and '@' alone
Args == {<<"1", " ">>}
          \cup {Ats(k) \o <<"A">> : k \in 1..MaxAt}
          \cup {Ats(k) : k \in 1..MaxAt}

\* message texts after the command word: nothing, or a space and an argument
Texts == {<<>>} \cup {<<" ">> \o a : a \in Args}

ExitCodes == {0, 1}

\* the environment of every run: one super ID after an empty token, and an
\* admin list whose only token is not a number
TheEnv == [super |-> S(<<",", " ", "1">>), admins |-> S(<<"x">>)]

\* the access file at start: absent, or one of a few documents, some of them
\* edited by hand (a handle with its '@' and in upper case, a handle that is
\* only '@')
InitFiles ==
    { Absent,
      Stored(Doc(Block(<<I(1)>>, <<S(<<"@", "A">>)>>), Block(<<>>, <<>>))),
      Stored(Doc(Block(<<I(1)>>, <<S(<<"@">>)>>), Block(<<>>, <<>>))),
      Stored(Doc(Block(<<I(1)>>, <<>>), Block(<<>>, <<S(<<"a">>)>>))),
      Stored(Doc(Block(<<>>, <<S(<<"a">>)>>), Block(<<>>, <<>>))) }

NoReq == [h |-> "none", entry |-> "bot", text |-> <<>>]
NoRun == [dl |-> "none", started |-> FALSE, missing |-> FALSE, exited |-> FALSE,
          rc |-> 0, out |-> FALSE, note |-> "none"]

\* a caller whose handler has returned (or has not sent anything yet)
Ready == {"idle", "done", "denied", "failed", "raised"}
InFlight(c) == pc[c] \notin Ready

\* a sender, and the result of a store function applied on its own
NoMsg == [id |-> 0, username |-> None]
NoOutcome == [op |-> "none", raised |-> FALSE, doc |-> empty_access,
              again |-> empty_access, m |-> NoMsg, sup |-> FALSE, adm |-> FALSE]

Init ==
    /\ input = Unparseable
    /\ outcome = NoOutcome
    /\ file \in InitFiles
    /\ env = TheEnv
    /\ pc = [c \in Callers |-> "idle"]
    /\ req = [c \in Callers |-> NoReq]
    /\ reply = [c \in Callers |-> NoReply]
    /\ run = [c \in Callers |-> NoRun]
    /\ tmpdirs = {}
    /\ before = [c \in Callers |-> {}]

\* the handler of c returns or raises
Ends(c) == before' = [x \in Callers |-> IF x = c THEN {} ELSE before[x] \ {c}]

\* the dispatcher starts the handler for a message of caller c
Begin(c, h, entry, text) ==
    /\ pc[c] \in Ready
    /\ req' = [req EXCEPT ![c] = [h |-> h, entry |-> entry, text |-> text]]
    /\ run' = [run EXCEPT ![c] = NoRun]
    /\ before' = [before EXCEPT ![c] = {x \in Callers \ {c} : InFlight(x)}]

\* a super-admin command up to its answer: load, check, change, save
Command(c, h, text) ==
    /\ Begin(c, h, "bot", text)
    /\ LET r == require_super(h, From(c), file, env, text)
       IN /\ file' = IF r.write THEN save_access(r.access) ELSE file
          /\ reply' = [reply EXCEPT ![c] = r.reply]
    /\ pc' = [pc EXCEPT ![c] = "reply"]
    /\ UNCHANGED <<env, tmpdirs, input, outcome>>

GrantAdmin(c, text)  == Command(c, "grant_admin", text)
RevokeAdmin(c, text) == Command(c, "revoke_admin", text)
GrantSuper(c, text)  == Command(c, "grant_super", text)
RevokeSuper(c, text) == Command(c, "revoke_super", text)
ListRoles(c)         == Command(c, "list_roles", <<>>)

\* the "convert video" button
Ask(c) ==
    /\ Begin(c, "ask", "bot", <<>>)
    /\ LET g == ensure_admin_access_or_explain(From(c), file, env)
       IN reply' = [reply EXCEPT ![c] =
                      IF g.ok THEN Reply("send_video", None) ELSE g.reply]
    /\ pc' = [pc EXCEPT ![c] = "reply"]
    /\ UNCHANGED <<file, env, tmpdirs, input, outcome>>

\* m.answer of a command or of the button returns, or raises and the exception
\* leaves the handler; either way the handler ends and its locals are gone
Answered(c, ok) ==
    /\ pc[c] = "reply"
    /\ pc' = [pc EXCEPT ![c] = IF ok THEN "idle" ELSE "raised"]
    /\ req' = [req EXCEPT ![c] = NoReq]
    /\ reply' = [reply EXCEPT ![c] = NoReply]
    /\ Ends(c)
    /\ UNCHANGED <<file, env, run, tmpdirs, input, outcome>>

\* bot.py: a video, video document or animation arrives
BotHandleVideo(c) ==
    /\ Begin(c, "video", "bot", <<>>)
    /\ LET g == ensure_admin_access_or_explain(From(c), file, env)
       IN /\ reply' = [reply EXCEPT ![c] = g.reply]
          /\ pc' = [pc EXCEPT ![c] = IF g.ok THEN "chat_action" ELSE "denying"]
    /\ UNCHANGED <<file, env, tmpdirs, input, outcome>>

\* the m.answer of the denial returns and handle_video returns, or it raises
\* and the exception leaves handle_video
Denied(c, ok) ==
    /\ pc[c] = "denying"
    /\ pc' = [pc EXCEPT ![c] = IF ok THEN "denied" ELSE "raised"]
    /\ Ends(c)
    /\ UNCHANGED <<file, env, req, reply, run, tmpdirs, input, outcome>>

\* Main.py: a video, video document or animation arrives
MainHandleVideo(c) ==
    /\ Begin(c, "video", "Main", <<>>)
    /\ reply' = [reply EXCEPT ![c] = NoReply]
    /\ pc' = [pc EXCEPT ![c] = "chat_action"]
    /\ UNCHANGED <<file, env, tmpdirs, input, outcome>>

\* out: whether the transcoder has left an output file, which only Main.py reads
handle_video(entry, at, ok, out) ==
    IF entry = "bot" THEN bot_handle_video(at, ok) ELSE Main_handle_video(at, ok, out)

\* the request of c resumes from the await `at` and runs to its next await or
\* to its end
Resume(c, at, ok, r) ==
    /\ pc[c] = at
    /\ req[c].h = "video"
    /\ LET g == handle_video(req[c].entry, at, ok, r.out)
       IN /\ pc' = [pc EXCEPT ![c] = g.pc]
          /\ tmpdirs' = CASE at = "chat_action" /\ g.inwith ->
                               TemporaryDirectory_enter(tmpdirs, c)
                          [] at # "chat_action" /\ ~g.inwith ->
                               TemporaryDirectory_exit(tmpdirs, c)
                          [] OTHER -> tmpdirs
          /\ run' = [run EXCEPT ![c] =
                       [r EXCEPT !.note = IF g.pc = "delivering" THEN "sending" ELSE @]]
          /\ reply' = [reply EXCEPT ![c] =
                         CASE g.pc = "reporting" -> Reply("error", None)
                           [] g.pc = "done" -> Reply("video_note", None)
                           [] OTHER -> @]
          /\ IF g.pc \in Ready THEN Ends(c) ELSE UNCHANGED before
    /\ UNCHANGED <<file, env, req, input, outcome>>

\* send_chat_action returns or raises
ChatActionSent(c, ok) == Resume(c, "chat_action", ok, run[c])

\* get_file returns or raises
GotFile(c, got_file) ==
    Resume(c, "downloading", download_media(got_file, TRUE),
           [run[c] EXCEPT !.dl = IF got_file THEN @ ELSE "failed"])

\* download_file returns or raises.  bot.py then calls create_subprocess_exec,
\* which starts the transcoder or, finding no such program, raises, before the
\* handler is suspended again; Main.py hands subprocess.run to an executor
\* thread, which may or may not have started the transcoder by the time the
\* handler is suspended (found says which)
DownloadedFile(c, downloaded, found) ==
    LET bot == req[c].entry = "bot"
        dl == download_media(run[c].dl # "failed", downloaded)
    IN Resume(c, "download_file", dl /\ (bot => found),
              [run[c] EXCEPT !.dl = IF downloaded /\ @ # "failed" THEN "ok" ELSE "failed",
                             !.started = dl /\ found,
                             !.missing = bot /\ dl /\ ~found])

\* bot.py: create_subprocess_exec returns the process it has started
Spawned(c) ==
    /\ req[c].entry = "bot"
    /\ Resume(c, "spawning", TRUE, run[c])

\* Main.py: the executor thread starts the transcoder while the handler is
\* suspended in run_in_executor
ProcessStarted(c) ==
    /\ pc[c] = "converting"
    /\ req[c].h = "video" /\ req[c].entry = "Main"
    /\ ~run[c].started
    /\ run' = [run EXCEPT ![c].started = TRUE]
    /\ UNCHANGED <<file, env, pc, req, reply, tmpdirs, before, input, outcome>>

\* Main.py: subprocess.run finds no transcoder program and raises in the
\* executor thread; run_in_executor raises in the handler
TranscoderMissing(c) ==
    /\ req[c].entry = "Main"
    /\ ~run[c].started
    /\ Resume(c, "converting", FALSE, [run[c] EXCEPT !.missing = TRUE])

\* the transcoder exits with status rc, with or without an output file
TranscoderExit(c, rc, out) ==
    LET ok == IF req[c].entry = "bot" THEN ffmpeg_convert(rc, out)
              ELSE convert_to_video_note(rc, out)
    IN /\ run[c].started
       /\ Resume(c, "converting", ok,
                 [run[c] EXCEPT !.exited = TRUE, !.rc = rc, !.out = out])

\* answer_video_note returns or raises
NoteSent(c, ok) ==
    Resume(c, "delivering", ok,
           [run[c] EXCEPT !.note = IF ok THEN "sent" ELSE "failed"])

\* the error message has been sent, or sending it raised
Reported(c, ok) == Resume(c, "reporting", ok, run[c])

\* the super-admin commands and the two access gates; an admitted request is
\* followed up to the creation of its working directory
NextAccess ==
    \E c \in Callers :
        \/ \E text \in Texts : GrantAdmin(c, text)
        \/ \E text \in Texts : RevokeAdmin(c, text)
        \/ \E text \in Texts : GrantSuper(c, text)
        \/ \E text \in Texts : RevokeSuper(c, text)
        \/ ListRoles(c)
        \/ Ask(c)
        \/ \E ok \in BOOLEAN : Answered(c, ok)
        \/ BotHandleVideo(c)
        \/ \E ok \in BOOLEAN : Denied(c, ok)
        \/ \E ok \in BOOLEAN : ChatActionSent(c, ok)

\* the conversion requests of both programs over an access file nobody changes
NextMedia ==
    \E c \in Callers :
        \/ BotHandleVideo(c)
        \/ \E ok \in BOOLEAN : Denied(c, ok)
        \/ MainHandleVideo(c)
        \/ \E ok \in BOOLEAN : ChatActionSent(c, ok)
        \/ \E g \in BOOLEAN : GotFile(c, g)
        \/ \E d \in BOOLEAN, found \in BOOLEAN : DownloadedFile(c, d, found)
        \/ Spawned(c)
        \/ ProcessStarted(c)
        \/ TranscoderMissing(c)
        \/ \E rc \in ExitCodes, out \in BOOLEAN : TranscoderExit(c, rc, out)
        \/ \E ok \in BOOLEAN : NoteSent(c, ok)
        \/ \E ok \in BOOLEAN : Reported(c, ok)

(***************************************************************************)
(* The store functions on their own, applied to values a file edited by    *)
(* hand or a caller may hold.                                              *)
(***************************************************************************)
\* handles with and without leading '@', in both cases, and the empty handle
Handles ==
    {S(Ats(k) \o <<"A">>) : k \in 0..MaxAt}
      \cup {S(Ats(k)) : k \in 0..MaxAt}
      \cup {S(<<"a">>)}

HandleLists ==
    {<<>>} \cup {<<h>> : h \in Handles} \cup {<<h, g>> : h \in Handles, g \in Handles}

\* ID lists: unsorted, repeated, numbers as strings, values that are no numbers
IdLists ==
    { <<>>,
      <<I(1)>>,
      <<I(2), I(1), I(1)>>,
      <<S(<<"1", " ">>), I(1)>>,
      <<S(<<"x">>), None, I(2)>> }

Blocks ==
    {Dict2(k_ids, JList(i), k_usernames, JList(u)) : i \in IdLists, u \in HandleLists}

\* blocks with a key missing, or with a str, a dict or mixed scalars where a
\* list of handles or IDs belongs
OddBlocks ==
    { Dict0,
      Dict1(k_ids, S(<<"1", "2">>)),
      Dict1(k_ids, Dict1(<<"1">>, I(2))),
      Dict1(k_usernames, S(<<"@", "A">>)),
      Dict1(k_usernames, JList(<<I(0), I(5), None, S(<<>>)>>)) }

\* values that are not a block, and blocks whose lists are not iterable
BadBlocks ==
    { None, I(5), S(<<"x">>), JList(<<>>),
      Dict1(k_ids, None), Dict1(k_ids, I(5)),
      Dict1(k_usernames, None), Dict1(k_usernames, I(5)) }

SmallBlocks ==
    {Dict2(k_ids, JList(i), k_usernames, JList(u)) :
        i \in {<<>>, <<I(1)>>},
        u \in {<<>>, <<S(<<"a">>)>>, <<S(<<"@", "A">>)>>}}

Values ==
    {None, I(5), S(<<"x">>), JList(<<>>), Dict0}
      \cup {Dict1(k_super, b) : b \in Blocks \cup OddBlocks \cup BadBlocks}
      \cup {Dict1(k_admins, b) : b \in OddBlocks \cup BadBlocks}
      \cup {Dict2(k_super, b, k_admins, c) : b \in SmallBlocks, c \in SmallBlocks}

Contents == {Unparseable} \cup {Text(v) : v \in Values}

\* senders: with and without a username, in either letter case
Msgs == {[id |-> i, username |-> u] : i \in {1, 2}, u \in {None, S(<<"A">>), S(<<"a">>)}}

InitStore ==
    /\ input \in Contents
    /\ outcome = NoOutcome
    /\ file = Absent
    /\ env = TheEnv
    /\ pc = [c \in Callers |-> "idle"]
    /\ req = [c \in Callers |-> NoReq]
    /\ reply = [c \in Callers |-> NoReply]
    /\ run = [c \in Callers |-> NoRun]
    /\ tmpdirs = {}
    /\ before = [c \in Callers |-> {}]

\* _load_access with the access file holding the text `input`
LoadAccess ==
    /\ outcome.op = "none"
    /\ LET r == read_access(input)
       IN outcome' = [NoOutcome EXCEPT !.op = "load", !.raised = r.raised, !.doc = r.doc]
    /\ UNCHANGED <<file, env, pc, req, reply, run, tmpdirs, before, input>>

\* _normalize_access applied to the value `input` denotes
NormalizeAccess ==
    /\ outcome.op = "none"
    /\ input.parses
    /\ LET r == normalize_access_of(input.v)
       IN outcome' = [NoOutcome EXCEPT !.op = "normalize", !.raised = r.raised,
                                       !.doc = r.doc]
    /\ UNCHANGED <<file, env, pc, req, reply, run, tmpdirs, before, input>>

\* _normalize_access applied to the document the first application returned
NormalizeAgain ==
    /\ outcome.op = "normalize"
    /\ ~outcome.raised
    /\ LET r == normalize_access_of(doc_json(outcome.doc))
       IN outcome' = [outcome EXCEPT !.op = "normalized_again", !.again = r.doc]
    /\ UNCHANGED <<file, env, pc, req, reply, run, tmpdirs, before, input>>

\* _save_access applied to the value `input` denotes; nothing is written when
\* the normalization inside it raises
SaveAccess ==
    /\ outcome.op = "none"
    /\ input.parses
    /\ LET r == normalize_access_of(input.v)
       IN /\ outcome' = [NoOutcome EXCEPT !.op = "save", !.raised = r.raised,
                                          !.doc = r.doc]
          /\ file' = IF r.raised THEN file ELSE save_access(as_doc(input.v))
    /\ UNCHANGED <<env, pc, req, reply, run, tmpdirs, before, input>>

\* _load_access after the save, with no write in between
LoadSaved ==
    /\ outcome.op = "save"
    /\ ~outcome.raised
    /\ outcome' = [outcome EXCEPT !.op = "load_saved", !.again = load_access(file, env)]
    /\ UNCHANGED <<file, env, pc, req, reply, run, tmpdirs, before, input>>

\* is_super and is_admin of sender m against the document loaded from `input`
CheckRoles(m) ==
    /\ outcome.op = "none"
    /\ LET r == read_access(input)
       IN /\ ~r.raised
          /\ outcome' = [NoOutcome EXCEPT !.op = "roles", !.doc = r.doc, !.m = m,
                                          !.sup = is_super(m, r.doc),
                                          !.adm = is_admin(m, r.doc)]
    /\ UNCHANGED <<file, env, pc, req, reply, run, tmpdirs, before, input>>

NextStore ==
    \/ LoadAccess
    \/ NormalizeAccess
    \/ NormalizeAgain
    \/ SaveAccess
    \/ LoadSaved
    \/ \E m \in Msgs : CheckRoles(m)

(***************************************************************************)
(* The grants and revokes of one super-admin over files with several       *)
(* entries in a list, typed with every shape of argument.                  *)
(***************************************************************************)
\* arguments: two IDs (one followed by whitespace), a handle typed bare and
\* behind one or more '@', in upper and in lower case, a second handle, bare
\* and behind '@', and '@' alone
GrantArgs ==
    {<<"1", " ">>, <<"2">>, <<"a">>, <<"B">>, <<"@", "b">>}
      \cup {Ats(k) \o <<"A">> : k \in 0..MaxAt + 1}
      \cup {Ats(k) : k \in 1..MaxAt}

GrantTexts == {<<>>} \cup {<<" ">> \o a : a \in GrantArgs}

\* the access file at start: absent, or edited by hand, with IDs out of order,
\* repeated, written as strings or not numbers at all, and handles out of
\* order, repeated up to case and '@', or only '@'
GrantFiles ==
    { Absent,
      Stored(Doc(Block(<<I(2), I(1), I(1)>>,
                       <<S(<<"@", "B">>), S(<<"a">>), S(<<"@", "A">>), S(<<"@">>)>>),
                 Block(<<S(<<"2", " ">>), S(<<"x">>), None, I(1)>>,
                       <<S(<<"b">>), S(<<"B">>), S(<<"a">>)>>))),
      Stored(Doc(Block(<<I(1)>>, <<>>),
                 Block(<<I(2), I(1)>>, <<S(<<"b">>), S(<<"a">>)>>))) }

\* the sender of these commands: the super-admin the environment names
Granters == {"u1"}

InitGrants ==
    /\ input = Unparseable
    /\ outcome = NoOutcome
    /\ file \in GrantFiles
    /\ env = TheEnv
    /\ pc = [c \in Callers |-> "idle"]
    /\ req = [c \in Callers |-> NoReq]
    /\ reply = [c \in Callers |-> NoReply]
    /\ run = [c \in Callers |-> NoRun]
    /\ tmpdirs = {}
    /\ before = [c \in Callers |-> {}]

NextGrants ==
    \E c \in Granters :
        \/ \E text \in GrantTexts : GrantAdmin(c, text)
        \/ \E text \in GrantTexts : RevokeAdmin(c, text)
        \/ \E text \in GrantTexts : GrantSuper(c, text)
        \/ \E text \in GrantTexts : RevokeSuper(c, text)
        \/ \E ok \in BOOLEAN : Answered(c, ok)

\* the program: its handlers, as the dispatcher runs them
Next == NextAccess \/ NextMedia

SpecAccess == Init /\ [][NextAccess]_vars
SpecMedia == Init /\ [][NextMedia]_vars
SpecStore == InitStore /\ [][NextStore]_vars
SpecGrants == InitGrants /\ [][NextGrants]_vars
Spec == Init /\ [][Next]_vars

(***************************************************************************)
(* Vocabulary of the properties.                                           *)
(***************************************************************************)
GrantRevoke == {"grant_admin", "revoke_admin", "grant_super", "revoke_super"}

\* caller c starts a handler in this step
Starts(c) == pc[c] \in Ready /\ pc'[c] \notin Ready

\* the document a handler starting now loads
Loaded == load_access(file, env)

\* the entries of a tier, IDs and handles together
TierSize(b) == Len(b.ids) + Len(b.usernames)

\* c is listed in block b by numeric ID or by handle
Listed(c, b) ==
    \/ \E i \in 1..Len(b.ids) : b.ids[i] = I(From(c).id)
    \/ /\ From(c).username # None
       /\ \E i \in 1..Len(b.usernames) :
            b.usernames[i] = S(Lower(LStrip(From(c).username.s, "@")))

\* the target of the command c is running, when its text has an argument
HasTarget(c) == Len(text_parts(req[c].text)) = 2
TargetOf(c) == parse_target(text_parts(req[c].text)[2])
ValidTarget(t) == t.uid # None \/ (t.uname # None /\ t.uname.s # <<>>)

\* target t is stored in block b
Holds(b, t) ==
    \/ t.uid # None /\ \E i \in 1..Len(b.ids) : b.ids[i] = t.uid
    \/ t.uname # None /\ \E i \in 1..Len(b.usernames) : b.usernames[i] = t.uname

\* target t names caller c
Names(t, c) ==
    \/ t.uid = I(From(c).id)
    \/ /\ From(c).username # None /\ t.uname # None
       /\ t.uname.s = Lower(LStrip(From(c).username.s, "@"))

\* the access file holds a document with at least one super ID or handle
SuperTierStored == file.exists /\ TierSize(file.doc.super) > 0

(***************************************************************************)
(* C1.  A stored super tier that is not empty never becomes empty: no      *)
(* step of any command takes the access file from a document with at least *)
(* one super ID or handle to one with none.                                *)
(***************************************************************************)
C1_SuperTierNeverEmptied == [][SuperTierStored => SuperTierStored']_vars

\* the loaded super tier has exactly one entry, and target t is that entry
SoleSuperIs(t) ==
    /\ TierSize(Loaded.super) = 1
    /\ ValidTarget(t)
    /\ Holds(Loaded.super, t)

(***************************************************************************)
(* C2.  revoke_super aimed at the only entry of the loaded super tier is   *)
(* rejected with a message and leaves the access file as it was.           *)
(***************************************************************************)
C2_SoleSuperRevokeRejected ==
    [][\A c \in Callers :
         (/\ Starts(c)
          /\ req'[c].h = "revoke_super"
          /\ Len(text_parts(req'[c].text)) = 2
          /\ SoleSuperIs(parse_target(text_parts(req'[c].text)[2])))
         => /\ file' = file
            /\ reply'[c].kind \in {"last_super", "denied_super"}]_vars

C2_Witness ==
    \E c \in Callers :
        /\ pc[c] = "reply"
        /\ req[c].h = "revoke_super"
        /\ reply[c].kind = "last_super"
        /\ HasTarget(c)
        /\ SoleSuperIs(TargetOf(c))

\* the tier an answer of kind k says it granted to
GrantedTier(k) ==
    IF k = "granted_admin" THEN "admins"
    ELSE IF k = "granted_super" THEN "super"
    ELSE "none"

\* the target of a command whose record is q
TargetIn(q) == parse_target(text_parts(q.text)[2])

\* a handler at position p with command record q and answer a is awaiting the
\* answer to a grant of a valid target
GrantPending(p, q, a) ==
    /\ p = "reply"
    /\ GrantedTier(a.kind) # "none"
    /\ Len(text_parts(q.text)) = 2
    /\ ValidTarget(TargetIn(q))

\* c is awaiting the answer to a grant of a valid target
Granting(c) == GrantPending(pc[c], req[c], reply[c])

(***************************************************************************)
(* C3.  Two grants to the same tier whose handling overlaps are both in    *)
(* the stored tier: a grant leaves its target in the stored tier, and a    *)
(* grant that starts while another caller is still awaiting the answer to  *)
(* a grant to the same tier keeps that caller's target there.  (The answer *)
(* that completes a command changes nothing in the store.)                 *)
(***************************************************************************)
C3_NoLostGrant ==
    [][\A d \in Callers :
         (Starts(d) /\ GrantPending(pc'[d], req'[d], reply'[d]))
         => LET tier == GrantedTier(reply'[d].kind)
            IN /\ file'.exists
               /\ Holds(file'.doc[tier], TargetIn(req'[d]))
               /\ \A c \in Callers \ {d} :
                    (/\ Granting(c)
                     /\ GrantedTier(reply[c].kind) = tier
                     /\ file.exists
                     /\ Holds(file.doc[tier], TargetOf(c)))
                    => Holds(file'.doc[tier], TargetOf(c))]_vars

\* both grants are in flight, the second started while the first awaited its
\* answer, and both targets are stored
C3_Witness ==
    \E c \in Callers, d \in Callers :
        /\ c \in before[d]
        /\ Granting(c) /\ Granting(d)
        /\ GrantedTier(reply[c].kind) = GrantedTier(reply[d].kind)
        /\ TargetOf(c) # TargetOf(d)
        /\ file.exists
        /\ Holds(file.doc[GrantedTier(reply[c].kind)], TargetOf(c))
        /\ Holds(file.doc[GrantedTier(reply[c].kind)], TargetOf(d))

(***************************************************************************)
(* C4.  A grant or revoke command of a caller who is not in the super tier *)
(* of the document loaded for it writes nothing and is answered with the   *)
(* super-only denial, also when the caller is in the admin tier.           *)
(***************************************************************************)
C4_NonSuperNeverWrites ==
    [][\A c \in Callers :
         (/\ Starts(c)
          /\ req'[c].h \in GrantRevoke
          /\ ~Listed(c, Loaded.super))
         => /\ file' = file
            /\ reply'[c] = Reply("denied_super", None)]_vars

C4_Witness ==
    \E c \in Callers :
        /\ pc[c] = "reply"
        /\ req[c].h \in GrantRevoke
        /\ reply[c].kind = "denied_super"
        /\ Listed(c, Loaded.admins)
        /\ ~Listed(c, Loaded.super)

(***************************************************************************)
(* C5.  A media request, of bot.py or of Main.py, gets past its start only *)
(* if the caller is in the admin or the super tier of the document loaded  *)
(* then; any other caller is answered with a denial naming the caller, and *)
(* the request goes no further.                                            *)
(***************************************************************************)
C5_MediaGated ==
    [][\A c \in Callers :
         (/\ Starts(c)
          /\ req'[c].h = "video"
          /\ ~Listed(c, Loaded.super)
          /\ ~Listed(c, Loaded.admins))
         => /\ pc'[c] = "denying"
            /\ reply'[c] = Reply("denied_admin", DeniedWho(From(c)))
            /\ tmpdirs' = tmpdirs]_vars

\* c is in neither tier of the stored document
Outsider(c) ==
    /\ file.exists
    /\ ~Listed(c, normalize_access(file.doc).super)
    /\ ~Listed(c, normalize_access(file.doc).admins)

(***************************************************************************)
(* C6.  A caller who is in neither tier of the stored document, as X is    *)
(* from the write of a revoke for X until X is granted again, is denied by *)
(* every gated action of bot.py it starts: the conversion request and the  *)
(* convert button with the admin denial, every super-only command with the *)
(* super denial.                                                           *)
(***************************************************************************)
C6_RevokedIsDenied ==
    [][\A c \in Callers :
         (Starts(c) /\ Outsider(c) /\ req'[c].entry = "bot")
         => /\ file' = file
            /\ tmpdirs' = tmpdirs
            /\ \/ /\ req'[c].h = "video"
                  /\ pc'[c] = "denying"
                  /\ reply'[c].kind = "denied_admin"
               \/ /\ req'[c].h = "ask"
                  /\ reply'[c].kind = "denied_admin"
               \/ /\ req'[c].h \in Commands
                  /\ reply'[c].kind = "denied_super"]_vars

\* u1's revoke naming X has been written and is being answered; X, who started
\* after that write, is being denied its conversion request
C6_Witness ==
    \E x \in Callers, d \in Callers :
        /\ d \in before[x]
        /\ pc[d] = "reply"
        /\ reply[d].kind \in {"revoked_admin", "revoked_super"}
        /\ HasTarget(d) /\ Names(TargetOf(d), x)
        /\ Outsider(x)
        /\ req[x].h = "video"
        /\ pc[x] = "denying"

\* the positions of a media request inside its working directory
InWith == {"downloading", "download_file", "spawning", "converting", "delivering",
           "reporting"}

(***************************************************************************)
(* C7.  The working directories that exist are exactly those of the        *)
(* requests that have created one and have not ended; a request that has   *)
(* ended, whichever way, has none.                                         *)
(***************************************************************************)
C7_TmpDirsOfLiveRequests ==
    /\ tmpdirs = {c \in Callers : pc[c] \in InWith}
    /\ \A c \in Callers : pc[c] \in Ready => c \notin tmpdirs

\* a request ended by a fault raised while its error was being reported, while
\* another request still holds its directory
C7_Witness ==
    \E c \in Callers, d \in Callers :
        /\ pc[c] = "raised" /\ reply[c].kind = "error" /\ c \notin tmpdirs
        /\ d \in tmpdirs

(***************************************************************************)
(* C8.  While the video note is being transmitted the working directory    *)
(* exists: it is removed only after the transmission has returned or       *)
(* raised.                                                                 *)
(***************************************************************************)
C8_NoRemovalWhileSending ==
    \A c \in Callers :
        (pc[c] = "delivering" \/ run[c].note = "sending") => c \in tmpdirs

C8_Witness ==
    \E c \in Callers :
        pc[c] = "done" /\ run[c].note = "sent" /\ c \notin tmpdirs

(***************************************************************************)
(* C9.  A request whose download failed never starts the transcoder and    *)
(* is on its way to a failed end; the transcoder is started only after a   *)
(* successful download.                                                    *)
(***************************************************************************)
C9_NoTranscoderAfterFailedDownload ==
    \A c \in Callers :
        /\ run[c].dl = "failed" =>
              ~run[c].started /\ pc[c] \in {"reporting", "failed", "raised"}
        /\ (run[c].started \/ pc[c] \in {"spawning", "converting"}) => run[c].dl = "ok"

C9_Witness ==
    \E c \in Callers, d \in Callers :
        /\ req[c].entry = "bot" /\ run[c].dl = "failed" /\ pc[c] = "failed"
        /\ req[d].entry = "Main" /\ run[d].dl = "failed" /\ pc[d] = "raised"

(***************************************************************************)
(* C10.  After a transcoder exit with a status other than 0 no video note  *)
(* is sent and the request is on its way to a failed end, with or without  *)
(* an output file; a video note is sent only after exit status 0.          *)
(***************************************************************************)
C10_NonZeroExitNeverDelivers ==
    \A c \in Callers :
        /\ (run[c].exited /\ run[c].rc # 0) =>
              /\ run[c].note = "none"
              /\ pc[c] \in {"reporting", "failed", "raised"}
        /\ run[c].note # "none" => (run[c].exited /\ run[c].rc = 0)

C10_Witness ==
    \E c \in Callers :
        /\ run[c].exited /\ run[c].rc # 0 /\ run[c].out
        /\ pc[c] = "failed" /\ run[c].note = "none"

(***************************************************************************)
(* C11.  A failed download and a failed conversion are caught inside the   *)
(* request, in bot.py and in Main.py: the step in which the download       *)
(* raises, the transcoder cannot be started or the transcoder exits with a *)
(* status other than 0 takes the request to the sending of an error        *)
(* message to the requester, and leaves every other request as it was.     *)
(***************************************************************************)
C11_FailuresCaught ==
    [][\A c \in Callers :
         (\/ pc[c] \in {"downloading", "download_file"} /\ run'[c].dl = "failed"
          \/ pc[c] \in {"download_file", "converting"} /\ run'[c].missing
          \/ pc[c] = "converting" /\ run'[c].exited /\ run'[c].rc # 0)
         => /\ pc'[c] = "reporting"
            /\ reply'[c].kind = "error"
            /\ \A x \in Callers \ {c} :
                 /\ pc'[x] = pc[x] /\ run'[x] = run[x] /\ reply'[x] = reply[x]
                 /\ (x \in tmpdirs') = (x \in tmpdirs)]_vars

(***************************************************************************)
(* C12.  _load_access never raises, whatever the access file holds: text   *)
(* that is not JSON, JSON that is not an object, an object whose "super"   *)
(* or "admins" is not an object, a block whose "ids" or "usernames" is not *)
(* a list; text that is not JSON and JSON that is not an object load as    *)
(* the empty document.                                                     *)
(***************************************************************************)
C12_LoadNeverFails ==
    outcome.op = "load" =>
        /\ ~outcome.raised
        /\ (~input.parses \/ input.v.t # "dict") => outcome.doc = empty_access

(***************************************************************************)
(* C13.  _normalize_access is idempotent: applied to the document it       *)
(* returned, it returns that document again, for duplicates, mixed-case    *)
(* handles, handles with leading '@' or made of '@' only, and ID values    *)
(* that are no integers.                                                   *)
(***************************************************************************)
C13_NormalizeIdempotent ==
    outcome.op = "normalized_again" => outcome.again = outcome.doc

(***************************************************************************)
(* C14.  A load that follows a completed _save_access(d), with no write in *)
(* between, returns _normalize_access(d).                                  *)
(***************************************************************************)
C14_LoadAfterSaveIsNormalize ==
    outcome.op = "load_saved" => outcome.again = outcome.doc

(***************************************************************************)
(* C16.  Whoever is_super admits, is_admin admits; and a sender whose ID   *)
(* is in the admin tier is admitted by is_admin with or without a handle.  *)
(***************************************************************************)
C16_SuperImpliesAdmin ==
    outcome.op = "roles" =>
        /\ outcome.sup => outcome.adm
        /\ I(outcome.m.id) \in Range(outcome.doc.admins.ids) => outcome.adm

\* a sender who is in the super tier by handle only, typed in another letter
\* case, and in the admin tier not at all, has been admitted by is_admin
C16_Witness ==
    /\ outcome.op = "roles"
    /\ outcome.m.username = S(<<"A">>)
    /\ S(<<"a">>) \in Range(outcome.doc.super.usernames)
    /\ I(outcome.m.id) \notin Range(outcome.doc.super.ids)
    /\ ~in_block(outcome.m, outcome.doc.admins)
    /\ outcome.sup /\ outcome.adm

\* the tier a command works on
TierOf(h) == IF h \in {"grant_admin", "revoke_admin"} THEN "admins" ELSE "super"

\* the step starts a grant or revoke of c that writes the store
Wrote(c) ==
    /\ Starts(c)
    /\ reply'[c].kind \in {"granted_admin", "revoked_admin", "granted_super", "revoked_super"}

(***************************************************************************)
(* C15.  A revoke of an ID or handle that is not in the tier it names      *)
(* leaves the access file as it was and is answered with "not found", not  *)
(* with the success message.                                               *)
(***************************************************************************)
C15_RevokeAbsentNotFound ==
    [][\A c \in Callers :
         (/\ Starts(c)
          /\ req'[c].h \in {"revoke_admin", "revoke_super"}
          /\ is_super(From(c), Loaded)
          /\ Len(text_parts(req'[c].text)) = 2
          /\ ValidTarget(TargetIn(req'[c]))
          /\ ~Holds(Loaded[TierOf(req'[c].h)], TargetIn(req'[c])))
         => /\ file' = file
            /\ reply'[c].kind = "not_found"]_vars

(***************************************************************************)
(* C17.  No ID and no handle is stored in the super tier and in the admin  *)
(* tier of the access file at once.                                        *)
(***************************************************************************)
C17_TiersDisjoint ==
    file.exists =>
        /\ Range(file.doc.super.ids) \cap Range(file.doc.admins.ids) = {}
        /\ Range(file.doc.super.usernames) \cap Range(file.doc.admins.usernames) = {}

\* block b as _save_access leaves it: integer IDs in ascending order, handles
\* that are lowercase, not empty and without a leading '@', in ascending
\* order, nothing twice
CanonicalBlock(b) ==
    /\ \A i \in 1..Len(b.ids) : b.ids[i].t = "int"
    /\ \A i \in 1..Len(b.ids) - 1 : b.ids[i].n < b.ids[i + 1].n
    /\ \A i \in 1..Len(b.usernames) :
         /\ b.usernames[i].t = "str"
         /\ b.usernames[i].s # <<>>
         /\ Head(b.usernames[i].s) # "@"
         /\ Lower(b.usernames[i].s) = b.usernames[i].s
    /\ \A i \in 1..Len(b.usernames) - 1 :
         StrLess(b.usernames[i].s, b.usernames[i + 1].s)

\* the handle or the ID a grant typed as text puts into its tier
StoredFor(text) ==
    CASE text \in {<<" ">> \o Ats(k) \o <<"A">> : k \in 0..MaxAt + 1} -> {S(<<"a">>)}
      [] text = <<" ", "a">> -> {S(<<"a">>)}
      [] text \in {<<" ", "B">>, <<" ", "@", "b">>} -> {S(<<"b">>)}
      [] text = <<" ", "1", " ">> -> {I(1)}
      [] text = <<" ", "2">> -> {I(2)}
      [] OTHER -> {}

(***************************************************************************)
(* C18.  Every write of a grant or revoke leaves, in both tiers of the     *)
(* access file, integer IDs and lowercase, non-empty handles without a     *)
(* leading '@', each list sorted and without duplicates, whatever the file *)
(* held before and however the argument was typed; a grant of 'A' typed    *)
(* bare or behind one or more '@' stores exactly 'a', and a grant of an ID *)
(* stores that integer.                                                    *)
(***************************************************************************)
C18_StoredCanonical ==
    [][\A c \in Callers :
         Wrote(c)
         => /\ file'.exists
            /\ CanonicalBlock(file'.doc.super)
            /\ CanonicalBlock(file'.doc.admins)
            /\ req'[c].h \in {"grant_admin", "grant_super"}
               => LET b == file'.doc[TierOf(req'[c].h)]
                  IN StoredFor(req'[c].text) \subseteq Range(b.ids) \cup Range(b.usernames)]_vars

\* a grant of 'A' behind more than one '@' to the admin tier has written and
\* awaits its answer; the file, which was edited by hand before the first
\* write, now holds two IDs and two handles in each tier, in order
C18_Witness ==
    \E c \in Callers :
        /\ pc[c] = "reply"
        /\ reply[c].kind = "granted_admin"
        /\ req[c].text = <<" ", "@", "@", "A">>
        /\ file.exists
        /\ file.doc = Doc(Block(<<I(1), I(2)>>, <<S(<<"a">>), S(<<"b">>)>>),
                          Block(<<I(1), I(2)>>, <<S(<<"a">>), S(<<"b">>)>>))

(***************************************************************************)
(* C19.  A grant or revoke that writes changes, against the document it    *)
(* loaded, at most the one stored set chosen by its tier and by the kind   *)
(* of its argument (ID or handle), and in that set at most the target.     *)
(***************************************************************************)
C19_OneSetOneElement ==
    [][\A c \in Callers :
         Wrote(c)
         => LET tier  == TierOf(req'[c].h)
                other == IF tier = "super" THEN "admins" ELSE "super"
                t     == TargetIn(req'[c])
            IN /\ file'.doc[other] = Loaded[other]
               /\ IF t.uid # None
                  THEN /\ file'.doc[tier].usernames = Loaded[tier].usernames
                       /\ Range(file'.doc[tier].ids) \ {t.uid}
                            = Range(Loaded[tier].ids) \ {t.uid}
                  ELSE /\ file'.doc[tier].ids = Loaded[tier].ids
                       /\ Range(file'.doc[tier].usernames) \ {t.uname}
                            = Range(Loaded[tier].usernames) \ {t.uname}]_vars

(***************************************************************************)
(* C20.  An admitted conversion request moves only along Idle (admitted,   *)
(* no working directory yet) -> Downloading (the awaits of get_file and of *)
(* download_file) -> Converting (the awaits of the start and of the exit   *)
(* of the transcoder) -> Delivering -> Done, skipping and revisiting       *)
(* nothing, and turns to the error reply of the Failed end only from       *)
(* Downloading or from Converting, never from Delivering.  (An exception   *)
(* that leaves the handler ends the request outside these states.)         *)
(***************************************************************************)
C20_PipelineOrder ==
    [][\A c \in Callers :
         (req'[c].h = "video" /\ pc'[c] # pc[c])
         => \/ pc[c] \in Ready /\ pc'[c] \in {"chat_action", "denying"}
            \/ pc[c] = "denying" /\ pc'[c] = "denied"
            \/ pc[c] = "chat_action" /\ pc'[c] = "downloading"
            \/ pc[c] = "downloading" /\ pc'[c] \in {"download_file", "reporting"}
            \/ pc[c] = "download_file" /\ pc'[c] \in {"spawning", "converting", "reporting"}
            \/ pc[c] = "spawning" /\ pc'[c] = "converting"
            \/ pc[c] = "converting" /\ pc'[c] \in {"delivering", "reporting"}
            \/ pc[c] = "delivering" /\ pc'[c] = "done"
            \/ pc[c] = "reporting" /\ pc'[c] = "failed"
            \/ pc'[c] = "raised"]_vars

\* the four commands that grant or revoke a role
GrantRevokeCommands == {"grant_admin", "revoke_admin", "grant_super", "revoke_super"}

\* the text after the command word of command record q carries no target: no
\* argument at all, or one that is neither a numeric ID nor a non-empty handle
NoTarget(q) ==
    \/ Len(text_parts(q.text)) < 2
    \/ ~ValidTarget(TargetIn(q))

(***************************************************************************)
(* C21.  A grant or revoke command of a super-admin whose argument is      *)
(* missing, or is neither a numeric ID nor a non-empty handle (only '@',   *)
(* say), is answered with a usage error: nothing is written to the access  *)
(* file and no grant or revocation is reported.                            *)
(***************************************************************************)
C21_NoTargetIsUsageError ==
    [][\A c \in Callers :
         (/\ Starts(c)
          /\ req'[c].h \in GrantRevokeCommands
          /\ is_super(From(c), Loaded)
          /\ NoTarget(req'[c]))
         => /\ ~require_super(req'[c].h, From(c), file, env, req'[c].text).write
            /\ file' = file
            /\ reply'[c].kind \in {"usage", "need_target"}]_vars

====
